---- MODULE Spec2Model ----
(***************************************************************************)
(* State-machine model of the resource-sharing backend in src/app.py.      *)
(*                                                                         *)
(* The three MongoDB collections are the shared state.  Every request is   *)
(* served by a worker; each call a handler makes to the store is one       *)
(* atomic step (the store is atomic per document and per call), and the    *)
(* steps of different workers interleave freely.  Local computation of a   *)
(* handler is folded into the store call that precedes it.                 *)
(***************************************************************************)
EXTENDS Integers, Sequences, FiniteSets, TLC

VARIABLES
    users,      \* Users collection: userId -> password
    projects,   \* Projects collection: projectId -> document
    resources,  \* Resources collection: <<projectId, hwsetId>> -> document
    pc,         \* per worker: the handler step it is about to take
    loc,        \* per worker: the handler's local variables
    net,        \* history: per hardware set, units of successful checkouts
                \* minus units of successful checkins
    resp        \* the HTTP response returned by the step just taken

vars == <<users, projects, resources, pc, loc, net, resp>>

(***************************************************************************)
(* Bounds and input domains                                                *)
(***************************************************************************)
MaxQty == 2
MaxTotal == 2
DefaultHw1Total == 15
DefaultHw2Total == 10

Workers == {"w1", "w2"}
UserIds == {"u1", "u2"}
NoUser == ""                      \* a missing or empty userId field
UserInputs == UserIds \cup {NoUser}
Secrets == {"s1", "s2"}
ProjectIds == {"p1"}
HwsetIds == {"HWSet1", "HWSet2"}
HwsetInputs == HwsetIds \cup {"HWSetX"}

\* JSON values a payload can carry in its isPublic field
JTrue == "true"
JFalse == "false"
JMissing == "missing"
JStr == "'yes'"                   \* a value that is truthy but is not true
IsPublicInputs == {JTrue, JFalse, JMissing, JStr}

\* payload.get(key, default)
PayloadGet(v, default) == IF v = JMissing THEN default ELSE v
\* Python truthiness of a stored or posted JSON value
Truthy(v) == v \in {JTrue, JStr}
\* bool(x)
PyBool(v) == IF Truthy(v) THEN JTrue ELSE JFalse

(***************************************************************************)
(* Store helpers                                                           *)
(***************************************************************************)
InSeq(x, s) == \E i \in 1..Len(s) : s[i] = x

RECURSIVE Without(_, _)
Without(s, x) ==
    IF s = <<>> THEN <<>>
    ELSE IF Head(s) = x THEN Without(Tail(s), x)
    ELSE <<Head(s)>> \o Without(Tail(s), x)

\* {"$addToSet": {"members": x}}
AddToSetPush(s, x) == Append(s, x)
AddToSet(s, x) == IF InSeq(x, s) THEN s ELSE Append(s, x)

\* {"$pull": {"members": x}}
Pull(s, x) == Without(s, x)

\* projects_col.find({"isPublic": True}): the query matches the value true only
get_public_projects == {p \in DOMAIN projects : projects[p].isPublic = JTrue}

\* projects_col.find({"members": user_id})
get_user_projects_accessible(u) ==
    IF u = NoUser THEN {}
    ELSE {p \in DOMAIN projects :
            InSeq(u, projects[p].members) \/ Truthy(projects[p].isPublic)}
get_user_projects(u) ==
    IF u = NoUser THEN {}
    ELSE {p \in DOMAIN projects : InSeq(u, projects[p].members)}

check_project_access_open(p, u) == u # NoUser /\ p \in DOMAIN projects
check_project_access_members(p, u) ==
    u # NoUser /\ p \in DOMAIN projects /\ InSeq(u, projects[p].members)
check_project_access(p, u) ==
    /\ u # NoUser
    /\ p \in DOMAIN projects
    /\ (InSeq(u, projects[p].members) \/ Truthy(projects[p].isPublic))

(***************************************************************************)
(* Workers and responses                                                   *)
(***************************************************************************)
\* JSON values a create_project payload can carry in a default_hwsetN_total
\* field: no field, an integer n, the number n + 1/2, the string of the
\* decimal digits of n, or a value int() refuses (null, a string without digits)
TotalMissing == [kind |-> "missing", n |-> 0]
TotalInt(n) == [kind |-> "int", n |-> n]
TotalFrac(n) == [kind |-> "frac", n |-> n]
TotalStr(n) == [kind |-> "str", n |-> n]
TotalBad == [kind |-> "bad", n |-> 0]

\* int(x): the integer itself, a number cut towards zero, a string parsed;
\* ok is FALSE when int() raises
PyInt(v) ==
    CASE v.kind = "int" -> [ok |-> TRUE, n |-> v.n]
      [] v.kind = "frac" -> [ok |-> TRUE, n |-> IF v.n >= 0 THEN v.n ELSE v.n + 1]
      [] v.kind = "str" -> [ok |-> TRUE, n |-> v.n]
      [] OTHER -> [ok |-> FALSE, n |-> 0]

\* the local variables of a handler; wrote records that the request has
\* changed a collection already
Blank == [p |-> "", u |-> "", t |-> "", h |-> "", q |-> 0, v |-> "",
          a |-> 0, b |-> 0, res |-> {},
          tt |-> <<TotalMissing, TotalMissing>>, wrote |-> FALSE]

NoResp == [op |-> "", code |-> 0, msg |-> "", p |-> "", u |-> "", t |-> "",
           h |-> "", q |-> 0, v |-> "", a |-> 0, b |-> 0, res |-> {},
           list |-> {}, members |-> <<>>]

\* a response of handler op to the request whose fields are in l
Reply(op, l, code, msg) ==
    [NoResp EXCEPT !.op = op, !.code = code, !.msg = msg, !.p = l.p,
                   !.u = l.u, !.t = l.t, !.h = l.h, !.q = l.q, !.v = l.v,
                   !.a = l.a, !.b = l.b, !.res = l.res]

\* the handler returns: the worker is free again
Return(w, r) ==
    /\ pc' = [pc EXCEPT ![w] = "idle"]
    /\ loc' = [loc EXCEPT ![w] = Blank]
    /\ resp' = r

\* the handler goes on to its next store call
Goto(w, label, l) ==
    /\ pc' = [pc EXCEPT ![w] = label]
    /\ loc' = [loc EXCEPT ![w] = l]
    /\ resp' = NoResp

\* The history variable net is exact from 0 to MaxTotal.  A value that would
\* leave that range is recorded as NetLo or NetHi and stays there: from then
\* on it says only that the range was left on that side.
NetLo == 0 - 1
NetHi == MaxTotal + 1
NoneOut == [k \in ProjectIds \X HwsetIds |-> 0]
Record(k, n) ==
    IF k \notin DOMAIN net \/ net[k] \in {NetLo, NetHi} THEN net
    ELSE IF net[k] + n > MaxTotal THEN [net EXCEPT ![k] = NetHi]
    ELSE IF net[k] + n < 0 THEN [net EXCEPT ![k] = NetLo]
    ELSE [net EXCEPT ![k] = net[k] + n]

Init ==
    /\ users = <<>>
    /\ projects = <<>>
    /\ resources = <<>>
    /\ pc = [w \in Workers |-> "idle"]
    /\ loc = [w \in Workers |-> Blank]
    /\ net = NoneOut
    /\ resp = NoResp

(***************************************************************************)
(* Auth endpoints                                                          *)
(***************************************************************************)
\* POST /api/signup, the password drawn from pws
signup(w, pws) ==
    /\ pc[w] = "idle"
    /\ \E u \in UserInputs, pw \in pws \cup {""} :
         LET l == [Blank EXCEPT !.u = u, !.v = pw] IN
         IF u = NoUser \/ pw = ""
         THEN /\ Return(w, Reply("signup", l, 400, "userId and password are required"))
              /\ UNCHANGED <<users, projects, resources, net>>
         ELSE IF u \in DOMAIN users
         THEN /\ Return(w, Reply("signup", l, 409, "User already exists"))
              /\ UNCHANGED <<users, projects, resources, net>>
         ELSE /\ users' = users @@ (u :> pw)
              /\ Return(w, Reply("signup", l, 201, "ok"))
              /\ UNCHANGED <<projects, resources, net>>

\* the code and the message login answers when the user is not found (found
\* is FALSE) or the stored password differs (found is TRUE)
InvalidCredentialsTelling(found) ==
    IF found THEN <<401, "Invalid userId/password">> ELSE <<404, "No such user">>
InvalidCredentials(found) == <<401, "Invalid userId/password">>

\* POST /api/login
login(w) ==
    /\ pc[w] = "idle"
    /\ \E u \in UserInputs, pw \in Secrets \cup {""} :
         LET l == [Blank EXCEPT !.u = u, !.v = pw] IN
         IF u = NoUser \/ pw = ""
         THEN Return(w, Reply("login", l, 400, "userId and password are required"))
         ELSE IF u \notin DOMAIN users \/ users[u] # pw
         THEN LET r == InvalidCredentials(u \in DOMAIN users)
              IN  Return(w, Reply("login", l, r[1], r[2]))
         ELSE Return(w, Reply("login", l, 200, "ok"))
    /\ UNCHANGED <<users, projects, resources, net>>

(***************************************************************************)
(* Project endpoints                                                       *)
(***************************************************************************)
\* GET /api/projects
list_projects(w) ==
    /\ pc[w] = "idle"
    /\ \E u \in UserInputs :
         LET l == [Blank EXCEPT !.u = u]
             docs == IF u # NoUser THEN get_user_projects(u)
                     ELSE {p \in DOMAIN projects : projects[p].isPublic = JTrue}
         IN  Return(w, [Reply("list_projects", l, 200, "ok") EXCEPT !.list = docs])
    /\ UNCHANGED <<users, projects, resources, net>>

\* GET /api/projects/public
list_public_projects(w) ==
    /\ pc[w] = "idle"
    /\ Return(w, [Reply("list_public_projects", Blank, 200, "ok")
                     EXCEPT !.list = get_public_projects])
    /\ UNCHANGED <<users, projects, resources, net>>

\* the document a handler returns for project p
ProjectReply(op, l, p) ==
    [Reply(op, l, 200, "ok") EXCEPT !.members = projects[p].members,
                                     !.t = projects[p].createdBy,
                                     !.v = projects[p].isPublic]

\* GET /api/projects/<project_id>
get_project(w) ==
    /\ pc[w] = "idle"
    /\ \E p \in ProjectIds, u \in UserInputs :
         LET l == [Blank EXCEPT !.p = p, !.u = u] IN
         IF ~check_project_access(p, u)
         THEN Return(w, Reply("get_project", l, 403, "Access denied"))
         ELSE Goto(w, "get_project_find", l)
    /\ UNCHANGED <<users, projects, resources, net>>

get_project_find(w) ==
    /\ pc[w] = "get_project_find"
    /\ LET l == loc[w] IN
       IF l.p \notin DOMAIN projects
       THEN Return(w, Reply("get_project", l, 404, "Project not found"))
       ELSE Return(w, ProjectReply("get_project", l, l.p))
    /\ UNCHANGED <<users, projects, resources, net>>

\* project.get("createdBy") != user_id
NotOwnerNever(project, u) == FALSE
NotOwner(project, u) == project.createdBy # u

\* PATCH /api/projects/<project_id>/visibility
set_project_visibility(w) ==
    /\ pc[w] = "idle"
    /\ \E p \in ProjectIds, u \in UserInputs, v \in IsPublicInputs :
         LET l == [Blank EXCEPT !.p = p, !.u = u, !.v = v] IN
         IF u = NoUser
         THEN Return(w, Reply("set_project_visibility", l, 400, "userId is required"))
         ELSE IF p \notin DOMAIN projects
         THEN Return(w, Reply("set_project_visibility", l, 404, "Project not found"))
         ELSE IF NotOwner(projects[p], u)
         THEN Return(w, Reply("set_project_visibility", l, 403,
                              "Only the project owner may change visibility"))
         ELSE Goto(w, "set_project_visibility_update", l)
    /\ UNCHANGED <<users, projects, resources, net>>

\* bool(payload.get("isPublic", False))
RequestedVisibility(v) == PyBool(PayloadGet(v, JFalse))

set_project_visibility_update(w) ==
    /\ pc[w] = "set_project_visibility_update"
    /\ LET l == loc[w]
           is_public == RequestedVisibility(l.v)
       IN  /\ projects' = IF l.p \in DOMAIN projects
                          THEN [projects EXCEPT ![l.p].isPublic = is_public]
                          ELSE projects
           /\ Return(w, [Reply("set_project_visibility", l, 200, "ok")
                            EXCEPT !.v = is_public])
    /\ UNCHANGED <<users, resources, net>>

\* the project document create_project inserts
NewProjectNoMembers(created_by, is_public) ==
    [createdBy |-> created_by, members |-> <<>>,
     isPublic |-> PayloadGet(is_public, JFalse)]
NewProject(created_by, is_public) ==
    [createdBy |-> created_by, members |-> <<created_by>>,
     isPublic |-> PayloadGet(is_public, JFalse)]

\* a default hardware set of the given total
NewResourceAllocated(total) ==
    [total |-> total, allocatedToProject |-> total, available |-> 0]
NewResource(total) ==
    [total |-> total, allocatedToProject |-> 0, available |-> total]

\* a request that gives neither total
DefaultTotals == {<<TotalMissing, TotalMissing>>}

\* int(payload.get("default_hwset1_total", 15)), int(payload.get("default_hwset2_total", 10))
ConfiguredTotal(v, default) ==
    PyInt(IF v.kind = "missing" THEN TotalInt(default) ELSE v)

\* not users_col.find_one({"userId": created_by})
InvalidUserNever(u) == FALSE
InvalidUser(u) == u \notin DOMAIN users

\* POST /api/projects, the two configured totals drawn from totals
create_project(w, totals) ==
    /\ pc[w] = "idle"
    /\ \E p \in ProjectIds, u \in UserInputs, v \in IsPublicInputs, tt \in totals :
         LET l == [Blank EXCEPT !.p = p, !.u = u, !.v = v, !.tt = tt] IN
         IF u = NoUser
         THEN Return(w, Reply("create_project", l, 400,
                              "projectId, name, and createdBy are required"))
         ELSE IF InvalidUser(u)
         THEN Return(w, Reply("create_project", l, 400, "Invalid user"))
         ELSE Goto(w, "create_project_insert", l)
    /\ UNCHANGED <<users, projects, resources, net>>

\* projects_col.insert_one(doc) under the unique index on projectId: a
\* document whose projectId is taken is not inserted (DuplicateKeyError)
InsertProjectUpsert(p, doc) == (p :> doc) @@ projects
InsertProject(p, doc) ==
    IF p \in DOMAIN projects THEN projects ELSE projects @@ (p :> doc)

create_project_insert(w) ==
    /\ pc[w] = "create_project_insert"
    /\ LET l == loc[w] IN
       IF l.p \in DOMAIN projects
       THEN /\ projects' = InsertProject(l.p, NewProject(l.u, l.v))
            /\ Return(w, Reply("create_project", l, 409, "projectId already exists"))
       ELSE LET hw1 == ConfiguredTotal(l.tt[1], DefaultHw1Total)
                hw2 == ConfiguredTotal(l.tt[2], DefaultHw2Total)
            IN  /\ projects' = InsertProject(l.p, NewProject(l.u, l.v))
                /\ IF ~hw1.ok \/ ~hw2.ok
                   THEN \* int() raises after the insert: the request ends in 500
                        Return(w, Reply("create_project", l, 500,
                                        "Internal Server Error"))
                   ELSE Goto(w, "create_project_hw1",
                             [l EXCEPT !.a = hw1.n, !.b = hw2.n, !.wrote = TRUE])
    /\ UNCHANGED <<users, resources, net>>

\* one turn of the loop over default_resources: insert, or keep the existing record
InsertDefault(p, h, total) ==
    IF <<p, h>> \in DOMAIN resources
    THEN resources
    ELSE resources @@ (<<p, h>> :> NewResource(total))

create_project_hw1(w) ==
    /\ pc[w] = "create_project_hw1"
    /\ LET l == loc[w] IN
       /\ resources' = InsertDefault(l.p, "HWSet1", l.a)
       /\ Goto(w, "create_project_hw2", [l EXCEPT !.res = {"HWSet1"}])
    /\ UNCHANGED <<users, projects, net>>

create_project_hw2(w) ==
    /\ pc[w] = "create_project_hw2"
    /\ LET l == loc[w] IN
       /\ resources' = InsertDefault(l.p, "HWSet2", l.b)
       /\ Return(w, Reply("create_project", [l EXCEPT !.res = l.res \cup {"HWSet2"}],
                          201, "ok"))
    /\ UNCHANGED <<users, projects, net>>

\* POST /api/projects/<project_id>/join
join_project(w) ==
    /\ pc[w] = "idle"
    /\ \E p \in ProjectIds, u \in UserInputs :
         LET l == [Blank EXCEPT !.p = p, !.u = u] IN
         IF u = NoUser
         THEN Return(w, Reply("join_project", l, 400, "userId is required"))
         ELSE IF u \notin DOMAIN users
         THEN Return(w, Reply("join_project", l, 400, "Invalid user"))
         ELSE Goto(w, "join_project_find", l)
    /\ UNCHANGED <<users, projects, resources, net>>

\* not project.get("isPublic", False) and user_id not in project.get("members", [])
JoinDeniedUnlessMember(project, u) == ~InSeq(u, project.members)
JoinDenied(project, u) == ~Truthy(project.isPublic) /\ ~InSeq(u, project.members)

join_project_find(w) ==
    /\ pc[w] = "join_project_find"
    /\ LET l == loc[w] IN
       IF l.p \notin DOMAIN projects
       THEN Return(w, Reply("join_project", l, 404, "Project not found"))
       ELSE IF JoinDenied(projects[l.p], l.u)
       THEN Return(w, Reply("join_project", l, 403, "Access denied - project is private"))
       ELSE IF ~InSeq(l.u, projects[l.p].members)
       THEN Goto(w, "join_project_update", l)
       ELSE Return(w, Reply("join_project", l, 200, "Already a member of this project"))
    /\ UNCHANGED <<users, projects, resources, net>>

join_project_update(w) ==
    /\ pc[w] = "join_project_update"
    /\ LET l == loc[w] IN
       /\ projects' = IF l.p \in DOMAIN projects
                      THEN [projects EXCEPT ![l.p].members = AddToSet(@, l.u)]
                      ELSE projects
       /\ Return(w, Reply("join_project", l, 200, "Successfully joined project"))
    /\ UNCHANGED <<users, resources, net>>

\* GET /api/projects/<project_id>/members
get_project_members(w) ==
    /\ pc[w] = "idle"
    /\ \E p \in ProjectIds, u \in UserInputs :
         LET l == [Blank EXCEPT !.p = p, !.u = u] IN
         IF ~check_project_access(p, u)
         THEN Return(w, Reply("get_project_members", l, 403, "Access denied"))
         ELSE Goto(w, "get_project_members_find", l)
    /\ UNCHANGED <<users, projects, resources, net>>

get_project_members_find(w) ==
    /\ pc[w] = "get_project_members_find"
    /\ LET l == loc[w] IN
       IF l.p \notin DOMAIN projects
       THEN Return(w, Reply("get_project_members", l, 404, "Project not found"))
       ELSE Return(w, ProjectReply("get_project_members", l, l.p))
    /\ UNCHANGED <<users, projects, resources, net>>

\* member_id == project.get("createdBy")
IsOwnerTargetNever(project, member_id) == FALSE
IsOwnerTarget(project, member_id) == member_id = project.createdBy

\* DELETE /api/projects/<project_id>/members/<member_id>
remove_project_member(w) ==
    /\ pc[w] = "idle"
    /\ \E p \in ProjectIds, t \in UserIds, u \in UserInputs :
         LET l == [Blank EXCEPT !.p = p, !.u = u, !.t = t] IN
         IF u = NoUser
         THEN Return(w, Reply("remove_project_member", l, 400, "requestingUser is required"))
         ELSE IF p \notin DOMAIN projects
         THEN Return(w, Reply("remove_project_member", l, 404, "Project not found"))
         ELSE IF NotOwner(projects[p], u)
         THEN Return(w, Reply("remove_project_member", l, 403,
                              "Only the project owner may remove members"))
         ELSE IF IsOwnerTarget(projects[p], t)
         THEN Return(w, Reply("remove_project_member", l, 400,
                              "Cannot remove the project owner"))
         ELSE Goto(w, "remove_project_member_update", l)
    /\ UNCHANGED <<users, projects, resources, net>>

remove_project_member_update(w) ==
    /\ pc[w] = "remove_project_member_update"
    /\ LET l == loc[w]
           modified == l.p \in DOMAIN projects /\ InSeq(l.t, projects[l.p].members)
       IN  /\ projects' = IF l.p \in DOMAIN projects
                          THEN [projects EXCEPT ![l.p].members = Pull(@, l.t)]
                          ELSE projects
           /\ Return(w, Reply("remove_project_member", l, 200,
                              IF modified THEN "removed" ELSE "User was not a member"))
    /\ UNCHANGED <<users, resources, net>>

\* POST /api/projects/<project_id>/invite
invite_to_project(w) ==
    /\ pc[w] = "idle"
    /\ \E p \in ProjectIds, u \in UserInputs, t \in UserInputs :
         LET l == [Blank EXCEPT !.p = p, !.u = u, !.t = t] IN
         IF u = NoUser \/ t = NoUser
         THEN Return(w, Reply("invite_to_project", l, 400,
                              "requestingUser and inviteUser are required"))
         ELSE IF ~check_project_access(p, u)
         THEN Return(w, Reply("invite_to_project", l, 403, "Access denied"))
         ELSE Goto(w, "invite_to_project_find", l)
    /\ UNCHANGED <<users, projects, resources, net>>

invite_to_project_find(w) ==
    /\ pc[w] = "invite_to_project_find"
    /\ LET l == loc[w] IN
       IF l.t \notin DOMAIN users
       THEN Return(w, Reply("invite_to_project", l, 404, "Invited user does not exist"))
       ELSE Goto(w, "invite_to_project_update", l)
    /\ UNCHANGED <<users, projects, resources, net>>

invite_to_project_update(w) ==
    /\ pc[w] = "invite_to_project_update"
    /\ LET l == loc[w]
           modified == l.p \in DOMAIN projects /\ ~InSeq(l.t, projects[l.p].members)
       IN  /\ projects' = IF l.p \in DOMAIN projects
                          THEN [projects EXCEPT ![l.p].members = AddToSet(@, l.t)]
                          ELSE projects
           /\ Return(w, Reply("invite_to_project", l, 200,
                              IF modified THEN "Successfully invited"
                              ELSE "is already a member"))
    /\ UNCHANGED <<users, resources, net>>

(***************************************************************************)
(* The membership and visibility subsystem, from the empty store           *)
(***************************************************************************)
Next ==
    \E w \in Workers :
        \/ signup(w, {"s1"})
        \/ list_projects(w)
        \/ list_public_projects(w)
        \/ get_project(w)
        \/ get_project_find(w)
        \/ set_project_visibility(w)
        \/ set_project_visibility_update(w)
        \/ create_project(w, DefaultTotals)
        \/ create_project_insert(w)
        \/ create_project_hw1(w)
        \/ create_project_hw2(w)
        \/ join_project(w)
        \/ join_project_find(w)
        \/ join_project_update(w)
        \/ get_project_members(w)
        \/ get_project_members_find(w)
        \/ remove_project_member(w)
        \/ remove_project_member_update(w)
        \/ invite_to_project(w)
        \/ invite_to_project_find(w)
        \/ invite_to_project_update(w)

Spec == Init /\ [][Next]_vars

(***************************************************************************)
(* Hardware resource endpoints                                             *)
(***************************************************************************)
\* the quantity field of a payload: an integer, or a value that is no integer
QuantityInputs ==
    {[int |-> TRUE, n |-> k] : k \in 0..MaxQty} \cup {[int |-> FALSE, n |-> 1]}

\* not isinstance(quantity, int) or quantity <= 0
BadQuantity(q) == ~q.int \/ q.n <= 0

\* GET /api/projects/<project_id>/resources
get_project_resources(w) ==
    /\ pc[w] = "idle"
    /\ \E p \in ProjectIds, u \in UserInputs :
         LET l == [Blank EXCEPT !.p = p, !.u = u] IN
         IF ~check_project_access(p, u)
         THEN Return(w, Reply("get_project_resources", l, 403, "Access denied"))
         ELSE Goto(w, "get_project_resources_find", l)
    /\ UNCHANGED <<users, projects, resources, net>>

get_project_resources_find(w) ==
    /\ pc[w] = "get_project_resources_find"
    /\ LET l == loc[w]
           docs == {h \in HwsetIds : <<l.p, h>> \in DOMAIN resources}
       IN  Return(w, Reply("get_project_resources", [l EXCEPT !.res = docs], 200, "ok"))
    /\ UNCHANGED <<users, projects, resources, net>>

\* {"$set": {"available": a, "allocatedToProject": b}} on one record
SetQuantitiesOfProject(p, h, a, b) ==
    [k \in DOMAIN resources |->
        IF k[1] = p
        THEN [resources[k] EXCEPT !.available = a, !.allocatedToProject = b]
        ELSE resources[k]]
SetQuantities(p, h, a, b) ==
    IF <<p, h>> \in DOMAIN resources
    THEN [resources EXCEPT ![<<p, h>>].available = a,
                           ![<<p, h>>].allocatedToProject = b]
    ELSE resources

\* quantity > current_available
InsufficientStockOffByOne(quantity, current_available) == quantity >= current_available
InsufficientStock(quantity, current_available) == quantity > current_available

\* new_available, new_allocated of checkout
CheckoutKeepsAllocated(resource, quantity) ==
    <<resource.available - quantity, resource.allocatedToProject>>
CheckoutQuantities(resource, quantity) ==
    <<resource.available - quantity, resource.allocatedToProject + quantity>>

\* POST /api/projects/<project_id>/resources/<hwset_id>/checkout
checkout_hardware(w) ==
    /\ pc[w] = "idle"
    /\ \E p \in ProjectIds, h \in HwsetInputs, u \in UserInputs, q \in QuantityInputs :
         LET l == [Blank EXCEPT !.p = p, !.u = u] IN
         IF u = NoUser
         THEN Return(w, Reply("checkout_hardware", l, 400, "userId is required"))
         ELSE IF ~check_project_access(p, u)
         THEN Return(w, Reply("checkout_hardware", l, 403, "Access denied to project"))
         ELSE IF BadQuantity(q)
         THEN Return(w, Reply("checkout_hardware", [l EXCEPT !.q = q.n], 400,
                              "quantity must be a positive integer"))
         ELSE Goto(w, "checkout_hardware_find", [l EXCEPT !.h = h, !.q = q.n])
    /\ UNCHANGED <<users, projects, resources, net>>

checkout_hardware_find(w) ==
    /\ pc[w] = "checkout_hardware_find"
    /\ LET l == loc[w] IN
       IF <<l.p, l.h>> \notin DOMAIN resources
       THEN Return(w, Reply("checkout_hardware", l, 404, "Hardware set not found"))
       ELSE LET resource == resources[<<l.p, l.h>>]
                new == CheckoutQuantities(resource, l.q)
            IN  IF InsufficientStock(l.q, resource.available)
                THEN Return(w, Reply("checkout_hardware",
                                     [l EXCEPT !.a = resource.available], 400,
                                     "Only N units available"))
                ELSE Goto(w, "checkout_hardware_update",
                          [l EXCEPT !.a = new[1], !.b = new[2]])
    /\ UNCHANGED <<users, projects, resources, net>>

\* track: whether the step is recorded in the history variable net
checkout_hardware_update(w, track) ==
    /\ pc[w] = "checkout_hardware_update"
    /\ LET l == loc[w] IN
       /\ resources' = SetQuantities(l.p, l.h, l.a, l.b)
       /\ net' = IF track THEN Record(<<l.p, l.h>>, l.q) ELSE net
       /\ Return(w, Reply("checkout_hardware", l, 200, "Checked out"))
    /\ UNCHANGED <<users, projects>>

\* quantity > current_allocated
OverReturn(quantity, current_allocated) == quantity > current_allocated

\* new_available, new_allocated of checkin
CheckinQuantities(resource, quantity) ==
    <<resource.available + quantity, resource.allocatedToProject - quantity>>

\* POST /api/projects/<project_id>/resources/<hwset_id>/checkin
checkin_hardware(w) ==
    /\ pc[w] = "idle"
    /\ \E p \in ProjectIds, h \in HwsetInputs, u \in UserInputs, q \in QuantityInputs :
         LET l == [Blank EXCEPT !.p = p, !.u = u] IN
         IF u = NoUser
         THEN Return(w, Reply("checkin_hardware", l, 400, "userId is required"))
         ELSE IF ~check_project_access(p, u)
         THEN Return(w, Reply("checkin_hardware", l, 403, "Access denied to project"))
         ELSE IF BadQuantity(q)
         THEN Return(w, Reply("checkin_hardware", [l EXCEPT !.q = q.n], 400,
                              "quantity must be a positive integer"))
         ELSE Goto(w, "checkin_hardware_find", [l EXCEPT !.h = h, !.q = q.n])
    /\ UNCHANGED <<users, projects, resources, net>>

checkin_hardware_find(w) ==
    /\ pc[w] = "checkin_hardware_find"
    /\ LET l == loc[w] IN
       IF <<l.p, l.h>> \notin DOMAIN resources
       THEN Return(w, Reply("checkin_hardware", l, 404, "Hardware set not found"))
       ELSE LET resource == resources[<<l.p, l.h>>]
                new == CheckinQuantities(resource, l.q)
            IN  IF OverReturn(l.q, resource.allocatedToProject)
                THEN Return(w, Reply("checkin_hardware",
                                     [l EXCEPT !.b = resource.allocatedToProject], 400,
                                     "Only N units are checked out"))
                ELSE Goto(w, "checkin_hardware_update",
                          [l EXCEPT !.a = new[1], !.b = new[2]])
    /\ UNCHANGED <<users, projects, resources, net>>

checkin_hardware_update(w, track) ==
    /\ pc[w] = "checkin_hardware_update"
    /\ LET l == loc[w] IN
       /\ resources' = SetQuantities(l.p, l.h, l.a, l.b)
       /\ net' = IF track THEN Record(<<l.p, l.h>>, -l.q) ELSE net
       /\ Return(w, Reply("checkin_hardware", l, 200, "Checked in"))
    /\ UNCHANGED <<users, projects>>

(***************************************************************************)
(* The inventory subsystem.  It starts from the store as two signups and   *)
(* one create_project leave it: u1 owns p1, u2 is registered and no        *)
(* member, and the two default hardware sets have configured totals.       *)
(***************************************************************************)
InvTotals == {<<t, t>> : t \in 1..MaxTotal}

\* the store after signup of u1 and u2 and create_project of p1 by u1 with
\* isPublic v and configured totals tt
Created(v, tt) ==
    /\ users = [u \in UserIds |-> "s1"]
    /\ projects = ("p1" :> NewProject("u1", v))
    /\ resources = (<<"p1", "HWSet1">> :> NewResource(tt[1]))
                   @@ (<<"p1", "HWSet2">> :> NewResource(tt[2]))
    /\ pc = [w \in Workers |-> "idle"]
    /\ loc = [w \in Workers |-> Blank]
    /\ net = NoneOut
    /\ resp = NoResp

InitInv == \E v \in {JFalse, JTrue}, tt \in InvTotals : Created(v, tt)

NextInv ==
    \E w \in Workers :
        \/ get_project_resources(w)
        \/ get_project_resources_find(w)
        \/ checkout_hardware(w)
        \/ checkout_hardware_find(w)
        \/ checkout_hardware_update(w, FALSE)
        \/ checkin_hardware(w)
        \/ checkin_hardware_find(w)
        \/ checkin_hardware_update(w, FALSE)

SpecInv == InitInv /\ [][NextInv]_vars

(***************************************************************************)
(* The inventory subsystem with its history recorded: checkouts and        *)
(* checkins of the owner of a private project.                             *)
(***************************************************************************)
InitRace == \E tt \in InvTotals : Created(JFalse, tt)

NextRace ==
    \E w \in Workers :
        \/ checkout_hardware(w)
        \/ checkout_hardware_find(w)
        \/ checkout_hardware_update(w, TRUE)
        \/ checkin_hardware(w)
        \/ checkin_hardware_find(w)
        \/ checkin_hardware_update(w, TRUE)

SpecRace == InitRace /\ [][NextRace]_vars

(***************************************************************************)
(* Every operation that can be refused, on the store as signup of u1 and   *)
(* create_project of p1 by u1 (private, totals 1 and 0) leave it; u2 is    *)
(* not registered yet.                                                     *)
(***************************************************************************)
InitAll ==
    /\ users = ("u1" :> "s1")
    /\ projects = ("p1" :> NewProject("u1", JFalse))
    /\ resources = (<<"p1", "HWSet1">> :> NewResource(1))
                   @@ (<<"p1", "HWSet2">> :> NewResource(0))
    /\ pc = [w \in Workers |-> "idle"]
    /\ loc = [w \in Workers |-> Blank]
    /\ net = NoneOut
    /\ resp = NoResp

NextAll ==
    \E w \in Workers :
        \/ signup(w, {"s1"})
        \/ set_project_visibility(w)
        \/ set_project_visibility_update(w)
        \/ create_project(w, DefaultTotals)
        \/ create_project_insert(w)
        \/ join_project(w)
        \/ join_project_find(w)
        \/ join_project_update(w)
        \/ remove_project_member(w)
        \/ remove_project_member_update(w)
        \/ invite_to_project(w)
        \/ invite_to_project_find(w)
        \/ invite_to_project_update(w)
        \/ checkout_hardware(w)
        \/ checkout_hardware_find(w)
        \/ checkout_hardware_update(w, FALSE)
        \/ checkin_hardware(w)
        \/ checkin_hardware_find(w)
        \/ checkin_hardware_update(w, FALSE)

SpecAll == InitAll /\ [][NextAll]_vars

(***************************************************************************)
(* Project creation with configured totals, on the store as signup of u1   *)
(* leaves it.                                                              *)
(***************************************************************************)
\* the totals a create_project payload gives: none, integers from 0 - 1 to
\* MaxTotal, a number and a string that int() converts, a value it refuses
CreateTotals ==
    {<<TotalMissing, TotalMissing>>, <<TotalInt(0 - 1), TotalMissing>>,
     <<TotalFrac(1), TotalStr(1)>>, <<TotalMissing, TotalBad>>}
        \cup {<<TotalInt(t), TotalInt(MaxTotal)>> : t \in 0..MaxTotal}

InitCreate ==
    /\ users = ("u1" :> "s1")
    /\ projects = <<>>
    /\ resources = <<>>
    /\ pc = [w \in Workers |-> "idle"]
    /\ loc = [w \in Workers |-> Blank]
    /\ net = NoneOut
    /\ resp = NoResp

NextCreate ==
    \E w \in Workers :
        \/ create_project(w, CreateTotals)
        \/ create_project_insert(w)
        \/ create_project_hw1(w)
        \/ create_project_hw2(w)
        \/ get_project_resources(w)
        \/ get_project_resources_find(w)

SpecCreate == InitCreate /\ [][NextCreate]_vars

(***************************************************************************)
(* The auth endpoints, from the empty store                                *)
(***************************************************************************)
NextAuth == \E w \in Workers : signup(w, Secrets) \/ login(w)

SpecAuth == Init /\ [][NextAuth]_vars

(***************************************************************************)
(* Properties                                                              *)
(***************************************************************************)
\* worker w takes the step it is waiting at with pc[w] = label
Steps(w, label) == pc[w] = label /\ pc'[w] # label

\* the record a hardware request of worker w is about
Key(w) == <<loc[w].p, loc[w].h>>

\* the record the response just returned is about
RespKey == <<resp.p, resp.h>>

\* C1: for every ResourceSet, available + allocatedToProject = total in every
\* reachable state, whatever checkouts and checkins have run and however the
\* read and write steps of the workers interleave.
C1_StockBalance ==
    \A k \in DOMAIN resources :
        resources[k].available + resources[k].allocatedToProject = resources[k].total

\* a checkin has just written a record that a checkout of the other worker
\* read before and is about to overwrite
C1_Witness ==
    /\ resp.op = "checkin_hardware" /\ resp.code = 200
    /\ \E w \in Workers : pc[w] = "checkout_hardware_update" /\ Key(w) = RespKey
    /\ C1_StockBalance

\* C2: the units of successful checkouts minus the units of successful
\* checkins never exceed the total of the ResourceSet, for every interleaving.
C2_NeverPastCapacity ==
    \A k \in DOMAIN resources : net[k] <= resources[k].total

\* C4: a checkout of a positive quantity q on a record whose available is a
\* is refused with 400 when q > a and goes on to its write when q <= a; if
\* the record is still as the handler read it, the write takes q from
\* available and adds q to allocatedToProject, and the 200 response reports
\* the values of the record.
C4_CheckoutBoundary ==
    [][\A w \in Workers :
         LET l == loc[w]
             k == Key(w)
         IN  /\ (Steps(w, "checkout_hardware_find") /\ k \in DOMAIN resources) =>
                   IF l.q <= resources[k].available
                   THEN /\ pc'[w] = "checkout_hardware_update"
                        /\ loc'[w].a = resources[k].available - l.q
                        /\ loc'[w].b = resources[k].allocatedToProject + l.q
                   ELSE /\ resp'.op = "checkout_hardware"
                        /\ resp'.code = 400
                        /\ resp'.msg = "Only N units available"
                        /\ resources' = resources
             /\ Steps(w, "checkout_hardware_update") =>
                   /\ resp'.op = "checkout_hardware" /\ resp'.code = 200
                   /\ resp'.a = resources'[k].available
                   /\ resp'.b = resources'[k].allocatedToProject
                   /\ (/\ resources[k].available = l.a + l.q
                       /\ resources[k].allocatedToProject = l.b - l.q)
                      => /\ resources'[k].available = resources[k].available - l.q
                         /\ resources'[k].allocatedToProject
                              = resources[k].allocatedToProject + l.q
    ]_vars

\* a checkout of exactly the available quantity has succeeded
C4_Witness ==
    /\ resp.op = "checkout_hardware" /\ resp.code = 200
    /\ resp.q >= 1 /\ resp.a = 0
    /\ resources[RespKey].available = 0
    /\ resources[RespKey].allocatedToProject = resp.q

\* C5: a checkin of a positive quantity q on a record whose allocatedToProject
\* is c is refused with 400 when q > c, and never succeeds when q > c; when it
\* succeeds, available grows by q and allocatedToProject shrinks by q.
C5_CheckinBounded ==
    [][\A w \in Workers :
         LET l == loc[w]
             k == Key(w)
         IN  /\ (Steps(w, "checkin_hardware_find") /\ k \in DOMAIN resources) =>
                   IF l.q <= resources[k].allocatedToProject
                   THEN pc'[w] = "checkin_hardware_update"
                   ELSE resp'.op = "checkin_hardware" /\ resp'.code = 400
             /\ Steps(w, "checkin_hardware_update") =>
                   /\ resp'.op = "checkin_hardware" /\ resp'.code = 200
                   /\ l.q <= resources[k].allocatedToProject
                   /\ resources'[k].available = resources[k].available + l.q
                   /\ resources'[k].allocatedToProject
                        = resources[k].allocatedToProject - l.q
    ]_vars

\* an idle worker answers a request at once: no worker changes its place
Immediate(ops) == pc' = pc /\ resp'.op \in ops

\* worker w accepts a request and goes on to the step labelled label
Accepts(w, labels) == pc[w] = "idle" /\ pc'[w] \in labels

Exists(p) == p \in DOMAIN projects
Private(p) == Exists(p) /\ projects[p].isPublic = JFalse
Public(p) == Exists(p) /\ projects[p].isPublic = JTrue
Member(p, u) == Exists(p) /\ InSeq(u, projects[p].members)
Owner(p, u) == Exists(p) /\ projects[p].createdBy = u
Registered(u) == u \in DOMAIN users

\* C3: the owner of every project is one of its members in every reachable
\* state, whatever create, invite, join, remove-member and visibility requests
\* have run and however their steps interleave.
C3_OwnerIsMember ==
    \A p \in DOMAIN projects : InSeq(projects[p].createdBy, projects[p].members)

\* the owner has just removed a member and is still a member
C3_Witness ==
    /\ resp.op = "remove_project_member" /\ resp.code = 200 /\ resp.msg = "removed"
    /\ Owner(resp.p, resp.u) /\ Member(resp.p, resp.u) /\ ~Member(resp.p, resp.t)

\* C6: for a private project and a registered user U who is no member,
\* get-project, join and get-members answer 403 and change nothing; the
\* owner's invite of a registered U goes through and makes U a member; and
\* for a member U the three requests are not refused and answer 200.
C6_PrivateUntilInvited ==
    [][\A w \in Workers :
         LET l == loc[w] IN
         \* refused while U is outside
         /\ Accepts(w, {"get_project_find", "get_project_members_find"}) =>
               ~(Private(loc'[w].p) /\ Registered(loc'[w].u) /\ ~Member(loc'[w].p, loc'[w].u))
         /\ (/\ Immediate({"get_project", "get_project_members"})
             /\ Private(resp'.p) /\ Registered(resp'.u) /\ ~Member(resp'.p, resp'.u))
            => resp'.code = 403 /\ projects' = projects
         /\ (Steps(w, "join_project_find") /\ Private(l.p) /\ ~Member(l.p, l.u)) =>
               /\ resp'.op = "join_project" /\ resp'.code = 403
               /\ projects' = projects
         \* the owner's invite
         /\ (Immediate({"invite_to_project"}) /\ Owner(resp'.p, resp'.u)) =>
               resp'.t = NoUser
         /\ (Steps(w, "invite_to_project_find") /\ Registered(l.t)) =>
               pc'[w] = "invite_to_project_update"
         /\ (Steps(w, "invite_to_project_update") /\ Exists(l.p)) =>
               /\ resp'.op = "invite_to_project" /\ resp'.code = 200
               /\ InSeq(l.t, projects'[l.p].members)
         \* accepted once U is a member
         /\ Immediate({"get_project", "get_project_members"}) =>
               ~Member(resp'.p, resp'.u)
         /\ (Steps(w, "get_project_find") /\ Exists(l.p)) =>
               resp'.op = "get_project" /\ resp'.code = 200
         /\ (Steps(w, "get_project_members_find") /\ Exists(l.p)) =>
               resp'.op = "get_project_members" /\ resp'.code = 200
         /\ Immediate({"join_project"}) => ~Registered(resp'.u)
         /\ (Steps(w, "join_project_find") /\ Member(l.p, l.u)) =>
               resp'.op = "join_project" /\ resp'.code = 200
    ]_vars

\* an invited user, who is not the owner, has read a private project
C6_Witness ==
    /\ resp.op = "get_project" /\ resp.code = 200
    /\ Private(resp.p) /\ ~Owner(resp.p, resp.u) /\ Member(resp.p, resp.u)
    /\ InSeq(resp.u, resp.members)

\* C7: a set-visibility or remove-member request of a requester who is not
\* the owner is answered 403 and changes nothing, also when the requester is
\* a member; only a step of such a request of the owner changes isPublic or
\* takes a member away; and a set-visibility request of the owner is accepted,
\* answers 200 and sets isPublic to the requested boolean.
C7_OwnerOnly ==
    [][/\ \A w \in Workers :
            LET l == loc[w] IN
            /\ (/\ Immediate({"set_project_visibility", "remove_project_member"})
                /\ Exists(resp'.p) /\ resp'.u # NoUser /\ ~Owner(resp'.p, resp'.u))
               => resp'.code = 403 /\ projects' = projects
            /\ Accepts(w, {"set_project_visibility_update",
                           "remove_project_member_update"}) =>
                  Owner(loc'[w].p, loc'[w].u)
            /\ Immediate({"set_project_visibility"}) => ~Owner(resp'.p, resp'.u)
            /\ Steps(w, "set_project_visibility_update") =>
                  /\ resp'.op = "set_project_visibility" /\ resp'.code = 200
                  /\ resp'.v = projects'[l.p].isPublic
                  /\ l.v \in {JTrue, JFalse} => projects'[l.p].isPublic = l.v
       /\ \A p \in DOMAIN projects :
            /\ projects'[p].isPublic # projects[p].isPublic =>
                  \E w \in Workers : /\ Steps(w, "set_project_visibility_update")
                                     /\ loc[w].p = p /\ Owner(p, loc[w].u)
            /\ (\E u \in UserIds : Member(p, u) /\ ~InSeq(u, projects'[p].members)) =>
                  \E w \in Workers : /\ Steps(w, "remove_project_member_update")
                                     /\ loc[w].p = p /\ Owner(p, loc[w].u)
    ]_vars

\* a member who is not the owner has been refused a change of visibility
C7_Witness ==
    /\ resp.op = "set_project_visibility" /\ resp.code = 403
    /\ Member(resp.p, resp.u) /\ ~Owner(resp.p, resp.u)

\* C8: a remove-member request whose target is the owner fails, with 403 when
\* the requester is not the owner and with 400 when the requester is the
\* owner, and the owner stays a member.
C8_OwnerNotRemovable ==
    (/\ resp.op = "remove_project_member"
     /\ Exists(resp.p) /\ Owner(resp.p, resp.t) /\ resp.u # NoUser)
    => /\ resp.code = IF Owner(resp.p, resp.u) THEN 400 ELSE 403
       /\ Member(resp.p, resp.t)

\* the owner has asked to be removed and has been refused
C8_Witness ==
    /\ resp.op = "remove_project_member" /\ resp.code = 400
    /\ resp.msg = "Cannot remove the project owner"
    /\ Owner(resp.p, resp.u) /\ resp.t = resp.u /\ Member(resp.p, resp.u)

\* C9: a set-visibility request of the owner for true stores true; a join of
\* a registered user who is no member of a public project is accepted,
\* answers 200 and makes the user a member; and both public listings hold
\* exactly the projects whose isPublic is true.
C9_PublicJoin ==
    [][\A w \in Workers :
         LET l == loc[w] IN
         /\ (Steps(w, "set_project_visibility_update") /\ l.v = JTrue) =>
               projects'[l.p].isPublic = JTrue
         /\ Immediate({"join_project"}) => ~Registered(resp'.u)
         /\ (Steps(w, "join_project_find") /\ Public(l.p) /\ ~Member(l.p, l.u)) =>
               pc'[w] = "join_project_update"
         /\ Steps(w, "join_project_update") =>
               /\ resp'.op = "join_project" /\ resp'.code = 200
               /\ InSeq(l.u, projects'[l.p].members)
         /\ (\/ Immediate({"list_public_projects"})
             \/ Immediate({"list_projects"}) /\ resp'.u = NoUser)
            => resp'.list = {p \in ProjectIds : Public(p)}
    ]_vars

\* a user who is not the owner has joined a public project
C9_Witness ==
    /\ resp.op = "join_project" /\ resp.code = 200
    /\ resp.msg = "Successfully joined project"
    /\ Public(resp.p) /\ ~Owner(resp.p, resp.u) /\ Member(resp.p, resp.u)

NoDuplicates(s) == \A i, j \in 1..Len(s) : i # j => s[i] # s[j]

\* C10: members never holds an identity twice; a join or an invite for a
\* user who is a member already answers 200 and leaves members as it is,
\* also when another request for that user has written in between.
C10_MembersIsASet ==
    /\ [](\A p \in DOMAIN projects : NoDuplicates(projects[p].members))
    /\ [][\A w \in Workers :
            LET l == loc[w] IN
            /\ (Steps(w, "join_project_find") /\ Member(l.p, l.u)) =>
                  resp'.code = 200 /\ projects' = projects
            /\ (Steps(w, "join_project_update") /\ Member(l.p, l.u)) =>
                  resp'.code = 200 /\ projects' = projects
            /\ (Steps(w, "invite_to_project_update") /\ Member(l.p, l.t)) =>
                  resp'.code = 200 /\ projects' = projects
       ]_vars

\* a join has made a user a member while a second join for the same user is
\* past its check and about to write
C10_Witness ==
    /\ resp.op = "join_project" /\ resp.code = 200 /\ Member(resp.p, resp.u)
    /\ \E w \in Workers : /\ pc[w] = "join_project_update"
                          /\ loc[w].u = resp.u /\ loc[w].p = resp.p

\* the error outcomes of a refused operation
ErrorCodes == {400, 401, 403, 404, 409}

\* worker w returns from a handler that took more than one step
Returns(w) == pc[w] # "idle" /\ pc'[w] = "idle"

\* C11: a step that answers a signup, create-project, set-visibility, join,
\* invite, remove-member, checkout or checkin request with 400, 401, 403, 404
\* or 409 changes none of the three collections, and no earlier step of the
\* same request has changed one.
C11_NoPartialMutation ==
    [][resp'.code \in ErrorCodes =>
         /\ <<users, projects, resources>>' = <<users, projects, resources>>
         /\ \A w \in Workers : Returns(w) => ~loc[w].wrote
    ]_vars

\* a create-project request for a project id that is taken has been refused
\* at its insert, and the project is as its owner made it
C11_Witness ==
    /\ resp.op = "create_project" /\ resp.code = 409
    /\ Exists(resp.p) /\ ~Owner(resp.p, resp.u) /\ ~Member(resp.p, resp.u)

\* canAccess(project, identityId)
CanAccess(p, u) == Member(p, u) \/ Public(p)

\* C12: a checkout or checkin request is let past its access check exactly
\* when canAccess holds for the requester on the project as read by that
\* check; a requester who is no member of a private project is answered 403;
\* and a ResourceSet is written only by the update step of such a request.
C12_AccessGate ==
    [][/\ \A w \in Workers :
            /\ Accepts(w, {"checkout_hardware_find", "checkin_hardware_find"}) =>
                  CanAccess(loc'[w].p, loc'[w].u)
            /\ (/\ Immediate({"checkout_hardware", "checkin_hardware"})
                /\ resp'.u # NoUser)
               => /\ resp'.code = 403 <=> ~CanAccess(resp'.p, resp'.u)
                  /\ resources' = resources
       /\ resources' # resources =>
             \E w \in Workers : \/ Steps(w, "checkout_hardware_update")
                                 \/ Steps(w, "checkin_hardware_update")
    ]_vars

\* a registered user who is no member of a private project has been refused
\* a checkout
C12_Witness ==
    /\ resp.op = "checkout_hardware" /\ resp.code = 403
    /\ Private(resp.p) /\ Registered(resp.u) /\ ~Member(resp.p, resp.u)

\* the steps of create_project after the project insert
Inserted == {"create_project_hw1", "create_project_hw2"}

\* C13: a create-project request whose owner id is not registered is
\* answered 400 Invalid user and inserts nothing; one whose project id is
\* taken is answered 409 and inserts nothing; a request goes on to success
\* only from its own insert, which makes the project with the owner as its
\* only member; and of two requests for one project id in flight at once, at
\* most one is past its insert or has succeeded.
C13_CreateGuards ==
    /\ [](\A w, x \in Workers :
            /\ (pc[w] \in Inserted /\ pc[x] \in Inserted /\ loc[w].p = loc[x].p)
               => w = x
            /\ (/\ resp.op = "create_project" /\ resp.code = 201
                /\ pc[w] \in Inserted) => loc[w].p # resp.p)
    /\ [](resp.op = "create_project" /\ resp.code = 201 =>
            Registered(resp.u) /\ Exists(resp.p))
    /\ [][\A w \in Workers :
            LET l == loc[w] IN
            /\ (Immediate({"create_project"}) /\ resp'.u # NoUser) =>
                  /\ ~Registered(resp'.u)
                  /\ resp'.code = 400 /\ resp'.msg = "Invalid user"
                  /\ projects' = projects
            /\ Accepts(w, {"create_project_insert"}) => Registered(loc'[w].u)
            /\ Accepts(w, Inserted) => FALSE
            /\ Steps(w, "create_project_insert") =>
                  IF Exists(l.p)
                  THEN /\ resp'.op = "create_project" /\ resp'.code = 409
                       /\ projects' = projects
                  ELSE /\ pc'[w] \in Inserted
                       /\ projects'[l.p].createdBy = l.u
                       /\ projects'[l.p].members = <<l.u>>
                       /\ \A p \in DOMAIN projects : projects'[p] = projects[p]
            /\ (Steps(w, "create_project_hw2") /\ resp'.code = 201) =>
                  Owner(l.p, l.u)
       ]_vars

\* of two create-project requests for one project id in flight together, one
\* is past its insert and the other has been answered 409
C13_Witness ==
    /\ resp.op = "create_project" /\ resp.code = 409
    /\ Exists(resp.p) /\ Registered(resp.u)
    /\ \E w \in Workers : pc[w] \in Inserted /\ loc[w].p = resp.p

\* the ResourceSets of project p
Hwsets(p) == {h \in HwsetInputs : <<p, h>> \in DOMAIN resources}

\* the total a payload value configures: the default when the field is
\* missing, the integer itself when it is one
Configured(v, default) == IF v.kind = "missing" THEN default ELSE v.n

\* a ResourceSet as the spec says it is created
FreshSet(total) == [total |-> total, allocatedToProject |-> 0, available |-> total]

\* C14: a create-project request that gets past its insert inserts HWSet1
\* and then HWSet2, each with allocatedToProject = 0 and available = total,
\* the total being the one the request configures (15 and 10 when it gives
\* none); when it returns 201 the project has exactly these two
\* ResourceSets, with those totals, and the response lists both.
C14_DefaultSets ==
    [][\A w \in Workers :
         LET l == loc[w] IN
         /\ (Steps(w, "create_project_insert") /\ pc'[w] = "create_project_hw1") =>
               /\ Hwsets(l.p) = {}
               /\ l.tt[1].kind \in {"missing", "int"} =>
                     loc'[w].a = Configured(l.tt[1], 15)
               /\ l.tt[2].kind \in {"missing", "int"} =>
                     loc'[w].b = Configured(l.tt[2], 10)
         /\ Steps(w, "create_project_hw1") =>
               /\ Hwsets(l.p) = {}
               /\ resources'[<<l.p, "HWSet1">>] = FreshSet(l.a)
               /\ pc'[w] = "create_project_hw2"
         /\ Steps(w, "create_project_hw2") =>
               /\ Hwsets(l.p) = {"HWSet1"}
               /\ resources'[<<l.p, "HWSet2">>] = FreshSet(l.b)
               /\ resources'[<<l.p, "HWSet1">>].total = l.a
               /\ DOMAIN resources' = DOMAIN resources \cup {<<l.p, "HWSet2">>}
               /\ resp'.op = "create_project" /\ resp'.code = 201
               /\ resp'.res = {"HWSet1", "HWSet2"}
               /\ resp'.a = l.a /\ resp'.b = l.b
    ]_vars

\* a create-project request that gave no totals has returned 201, and the
\* project has HWSet1 with 15 units and HWSet2 with 10, none allocated
C14_Witness ==
    /\ resp.op = "create_project" /\ resp.code = 201
    /\ Hwsets(resp.p) = {"HWSet1", "HWSet2"}
    /\ resources[<<resp.p, "HWSet1">>] = FreshSet(15)
    /\ resources[<<resp.p, "HWSet2">>] = FreshSet(10)

\* C15: a get-project request for a project id that does not exist is
\* answered 404, whatever user id it carries.
C15_MissingIsNotFound ==
    (resp.op = "get_project" /\ ~Exists(resp.p)) => resp.code = 404

\* C16: the list returned by GET /projects without userId and by
\* GET /projects/public holds no private project, and the list returned by
\* GET /projects with a userId holds exactly the projects whose members
\* contain that user, private or public.
C16_Listings ==
    /\ (\/ resp.op = "list_public_projects"
        \/ resp.op = "list_projects" /\ resp.u = NoUser)
       => \A p \in resp.list : Exists(p) /\ ~Private(p)
    /\ (resp.op = "list_projects" /\ resp.u # NoUser)
       => resp.list = {p \in ProjectIds : Member(p, resp.u)}

\* a user who is no member of a public project has asked for their projects
\* and has got none
C16_Witness ==
    /\ resp.op = "list_projects" /\ resp.u # NoUser /\ Registered(resp.u)
    /\ resp.list = {}
    /\ \E p \in ProjectIds : Public(p) /\ ~Member(p, resp.u)

\* C17: total, allocatedToProject and available of every ResourceSet are at
\* least 0 in every reachable state, whatever integer totals a create-project
\* request configures.
C17_NonNegative ==
    \A k \in DOMAIN resources :
        /\ resources[k].total >= 0
        /\ resources[k].allocatedToProject >= 0
        /\ resources[k].available >= 0

\* the response to a login request (u, pw) that is refused for its credentials
Refused(u, pw) ==
    [NoResp EXCEPT !.op = "login", !.code = 401, !.msg = "Invalid userId/password",
                   !.u = u, !.v = pw]

\* C18: the response to a login request that gives an id and a secret and
\* fails is 401 with one message and depends on the request alone, whether
\* the id is not registered or its stored secret differs; and a signup that
\* gives a secret for a registered id is answered 409 and leaves the Users
\* collection, the stored secret included, as it was.
C18_LoginTellsNothing ==
    /\ []((/\ resp.op = "login" /\ resp.u # NoUser /\ resp.v # ""
           /\ (~Registered(resp.u) \/ users[resp.u] # resp.v))
          => resp = Refused(resp.u, resp.v))
    /\ [][(resp'.op = "signup" /\ Registered(resp'.u) /\ resp'.v # "") =>
            /\ resp'.code = 409 /\ resp'.msg = "User already exists"
            /\ users' = users
       ]_vars

\* a login with the wrong secret for a registered id has been refused, while
\* another id is not registered
C18_Witness ==
    /\ resp.op = "login" /\ resp.code = 401
    /\ Registered(resp.u) /\ users[resp.u] # resp.v
    /\ \E u \in UserIds : ~Registered(u)

\* C19: for every ResourceSet, allocatedToProject is its initial value 0 plus
\* the units of all successful checkouts minus the units of all successful
\* checkins, and available is total minus that, after every interleaving of
\* checkout and checkin requests.
C19_NoLostUpdate ==
    \A k \in DOMAIN resources :
        net[k] \in 0..MaxTotal =>
            /\ resources[k].allocatedToProject = net[k]
            /\ resources[k].available = resources[k].total - net[k]

\* C20: no step of a join request adds a user who is no member to the
\* members of a project whose isPublic is false at that step, also when the
\* owner's set-visibility request runs between the steps of the join.
C20_NoJoinWhilePrivate ==
    [][\A w \in Workers :
         LET l == loc[w] IN
         (/\ Steps(w, "join_project_update")
          /\ ~Member(l.p, l.u) /\ InSeq(l.u, projects'[l.p].members))
         => ~Private(l.p)
    ]_vars

\* C21: a create-project request with totals int() accepts, for a project
\* that exists with one or both of its default ResourceSets missing and with
\* no create request for it past its insert, does not return before both
\* default ResourceSets exist, and leaves every existing record as it is.
C21_CreateRecovers ==
    [][\A w \in Workers :
         LET l == loc[w] IN
         (/\ Steps(w, "create_project_insert")
          /\ Exists(l.p) /\ Hwsets(l.p) # {"HWSet1", "HWSet2"}
          /\ \A x \in Workers : pc[x] \in Inserted => loc[x].p # l.p
          /\ l.tt[1].kind \in {"missing", "int"}
          /\ l.tt[2].kind \in {"missing", "int"})
         => /\ \/ pc'[w] # "idle"
               \/ \A h \in {"HWSet1", "HWSet2"} : <<l.p, h>> \in DOMAIN resources'
            /\ \A k \in DOMAIN resources :
                  k \in DOMAIN resources' /\ resources'[k] = resources[k]
    ]_vars

\* the steps that answer a successful checkout or checkin
HardwareWrites == {"checkout_hardware_update", "checkin_hardware_update"}

\* C22: no step removes a ResourceSet or changes its total; a step that
\* changes a ResourceSet is the write of a checkout or checkin, changes
\* available and allocatedToProject of the record of that request alone and
\* leaves every project as it is; no step of signup, invite, join,
\* remove-member or set-visibility changes a ResourceSet; and the projectId
\* of every ResourceSet is that of an existing project.
C22_ResourceFrame ==
    /\ [](\A k \in DOMAIN resources : Exists(k[1]))
    /\ [][/\ \A k \in DOMAIN resources :
                /\ k \in DOMAIN resources'
                /\ resources'[k].total = resources[k].total
          /\ \A w \in Workers :
                (\E h \in HardwareWrites : Steps(w, h)) =>
                    /\ resp'.code = 200
                    /\ projects' = projects /\ users' = users
                    /\ \A k \in DOMAIN resources :
                          k # Key(w) => resources'[k] = resources[k]
          /\ (\E k \in DOMAIN resources : resources'[k] # resources[k]) =>
                 \E w \in Workers, h \in HardwareWrites : Steps(w, h)
      ]_vars

\* a checkout has taken the unit of one ResourceSet of a project that a
\* second user has joined as a member, and the other ResourceSet is as created
C22_Witness ==
    /\ resp.op = "checkout_hardware" /\ resp.code = 200
    /\ resources[RespKey].allocatedToProject = resp.q
    /\ resources[RespKey].available = resources[RespKey].total - resp.q
    /\ \E k \in DOMAIN resources : k # RespKey /\ resources[k] = FreshSet(0)
    /\ \E u \in UserIds : Member(resp.p, u) /\ ~Owner(resp.p, u)

====
